---- MODULE Spec2Model ----
(***************************************************************************)
(* A model of the knowledge-source server of agentic_rag: the text         *)
(* segmenter (text_processor.py), the vector store client                  *)
(* (vector_client.py) and the search / ingest orchestration (server.py).   *)
(*                                                                         *)
(* Text is a sequence of one-character strings.  Every handler of the      *)
(* server runs to completion without a suspension point (the clients are   *)
(* blocking), so each handler is one action.                               *)
(***************************************************************************)
EXTENDS Integers, Sequences, FiniteSets, TLC

VARIABLES
    seg_pc,        \* "input" before split_text has run, "done" after, "idle" when unused
    seg_text,      \* the text handed to split_text
    seg_size,      \* the chunk_size argument (0 stands for None / 0: both are falsy)
    seg_overlap,   \* the chunk_overlap argument (0 stands for None / 0)
    seg_chunks,    \* the chunks split_text returned, each with the length of its injected prefix
    index,         \* the Vector Index: the set of entries stored in the namespace
    op,            \* the last operation the server ran ("none" before the first)
    args,          \* its inputs
    resp,          \* what it returned (or that it raised)
    calls,         \* the calls it made to the embedding provider and the index
    reply,         \* what call_tool handed back to the protocol layer for it
    lst_pc,        \* get_space_pages: "request" inside the loop, "done" after, "idle" when unused
    lst_start,     \* its start offset
    lst_all_pages, \* its all_pages list
    lst_requests,  \* the (start, limit) of every request it sent, in order
    lst_received,  \* the page of results each request brought back, in order
    nrm_pc,        \* extract_text: "input", "once" after one pass, "twice" after two, "idle"
    nrm_text,      \* the body.storage.value of the page handed to extract_text
    nrm_once,      \* what extract_text returned for it
    nrm_twice      \* what extract_text returned for a page holding nrm_once

vars == <<seg_pc, seg_text, seg_size, seg_overlap, seg_chunks, index, op, args, resp, calls,
          reply, lst_pc, lst_start, lst_all_pages, lst_requests, lst_received,
          nrm_pc, nrm_text, nrm_once, nrm_twice>>
segVars == <<seg_pc, seg_text, seg_size, seg_overlap, seg_chunks>>
srvVars == <<index, op, args, resp, calls, reply>>
lstVars == <<lst_pc, lst_start, lst_all_pages, lst_requests, lst_received>>
nrmVars == <<nrm_pc, nrm_text, nrm_once, nrm_twice>>

(***************************************************************************)
(* Bounds of the model.                                                    *)
(***************************************************************************)
MaxTextLen == 6
MaxChunkSize == 3
MaxOverlap == 2

(***************************************************************************)
(* Program constants.                                                      *)
(***************************************************************************)
DefaultChunkSize == 512
DefaultChunkOverlap == 50
IngestChunkSize == 512
IngestOverlap == 50
PreviewLen == 200
CandidateCap == 10
\* get_space_pages: limit = 100
PageLimit == 100

(***************************************************************************)
(* Characters.  Python's str.strip() and the regex class \s take the same  *)
(* whitespace characters; the texts of the model use two of them.          *)
(***************************************************************************)
Whitespace == {" ", "\n", "\t"}
Terminators == {".", "!", "?"}
Chars == {"a", ".", " ", "\n"}

IsWs(c) == c \in Whitespace

Min(S) == CHOOSE x \in S : \A y \in S : x <= y
Max(S) == CHOOSE x \in S : \A y \in S : x >= y

\* len(s) of a Python string
PyLen(s) == Len(s)

\* s[-k:] for k > 0: the last k characters, the whole string when it is shorter
Suffix(s, k) == IF Len(s) <= k THEN s ELSE SubSeq(s, Len(s) - k + 1, Len(s))

\* s[:k] for k >= 0
Prefix(s, k) == IF Len(s) <= k THEN s ELSE SubSeq(s, 1, k)

\* str.strip(): drop the leading and the trailing whitespace
Strip(s) ==
    LET keep == {i \in 1..Len(s) : ~IsWs(s[i])}
    IN  IF keep = {} THEN <<>> ELSE SubSeq(s, Min(keep), Max(keep))

\* the end of the run of characters in `cls` that starts at position i
RECURSIVE RunEnd(_, _, _)
RunEnd(s, i, cls) ==
    IF i < Len(s) /\ s[i + 1] \in cls THEN RunEnd(s, i + 1, cls) ELSE i

\* Where a match of r"\n{2,}" can start: two newlines in a row.
ParagraphBreaks(s) == {i \in 1..(Len(s) - 1) : s[i] = "\n" /\ s[i + 1] = "\n"}

\* Where a match of r"(?<=[.!?])\s+" can start: whitespace right after a terminator.
SentenceBreaks(s) == {i \in 2..Len(s) : IsWs(s[i]) /\ s[i - 1] \in Terminators}

\* re.split: cut s at the leftmost matches, each match a maximal run of `cls`
\* starting at a position of `starts`; the pieces between the matches, in order.
RECURSIVE ReSplit(_, _, _, _)
ReSplit(s, from, starts, cls) ==
    LET later == {i \in starts : i >= from}
    IN  IF later = {}
        THEN <<SubSeq(s, from, Len(s))>>
        ELSE LET i == Min(later)
                 j == RunEnd(s, i, cls)
             IN  <<SubSeq(s, from, i - 1)>> \o ReSplit(s, j + 1, starts, cls)

\* [p.strip() for p in pieces if p.strip()]
StripNonEmpty(pieces) ==
    LET stripped == [i \in 1..Len(pieces) |-> Strip(pieces[i])]
    IN  SelectSeq(stripped, LAMBDA p : p # <<>>)

_split_by_paragraphs(text) ==
    StripNonEmpty(ReSplit(text, 1, ParagraphBreaks(text), {"\n"}))

_split_by_sentences(text) ==
    StripNonEmpty(ReSplit(text, 1, SentenceBreaks(text), Whitespace))

\* A chunk with the length of the overlap prefix that was put in front of it
\* (pre = 0: none).  The code keeps the text; pre records where it came from.
Chunk(t, p) == [text |-> t, pre |-> p]
NoChunk == Chunk(<<>>, 0)

\* The loop of _split_long_text over sentences k..Len(sentences).
RECURSIVE LongLoop(_, _, _, _)
LongLoop(sentences, k, chunks, chunk_size) ==
    IF k > Len(sentences) THEN chunks
    ELSE LET sentence == Strip(sentences[k])
         IN  IF chunks = <<>>
             THEN LongLoop(sentences, k + 1, <<Chunk(sentence, 0)>>, chunk_size)
             ELSE LET last_chunk == chunks[Len(chunks)]
                  IN  IF PyLen(last_chunk.text) + PyLen(sentence) + 1 > chunk_size
                      THEN LongLoop(sentences, k + 1,
                                    Append(chunks, Chunk(sentence, 0)), chunk_size)
                      ELSE LongLoop(sentences, k + 1,
                                    [chunks EXCEPT ![Len(chunks)] =
                                        Chunk(last_chunk.text \o <<" ">> \o sentence, 0)],
                                    chunk_size)

_split_long_text(text, chunk_size) ==
    LongLoop(_split_by_sentences(text), 1, <<>>, chunk_size)

\* if current_chunk: chunks.append(current_chunk)
FlushDropped(chunks, current) == chunks

Flush(chunks, current) ==
    IF current.text # <<>> THEN Append(chunks, current) ELSE chunks

\* The chunk opened after a paragraph did not fit: the overlap of the last
\* closed chunk, a space and the paragraph; the paragraph alone when there is
\* no closed chunk (chunk_overlap is > 0 here: see split_text).
OpenChunk(chunks, paragraph, chunk_overlap) ==
    IF chunk_overlap > 0 /\ chunks # <<>>
    THEN LET overlap_text == Suffix(chunks[Len(chunks)].text, chunk_overlap)
         IN  Chunk(overlap_text \o <<" ">> \o paragraph, PyLen(overlap_text) + 1)
    ELSE Chunk(paragraph, 0)

\* The loop of split_text over paragraphs k..Len(paragraphs), then the last flush.
RECURSIVE SplitLoop(_, _, _, _, _, _)
SplitLoop(paragraphs, k, chunks, current, chunk_size, chunk_overlap) ==
    IF k > Len(paragraphs) THEN Flush(chunks, current)
    ELSE LET paragraph == Strip(paragraphs[k])
         IN  IF PyLen(paragraph) > chunk_size
             THEN SplitLoop(paragraphs, k + 1,
                            Flush(chunks, current) \o _split_long_text(paragraph, chunk_size),
                            NoChunk, chunk_size, chunk_overlap)
             ELSE IF PyLen(current.text) + PyLen(paragraph) + 2 > chunk_size
             THEN LET closed == Flush(chunks, current)
                  IN  SplitLoop(paragraphs, k + 1, closed,
                                OpenChunk(closed, paragraph, chunk_overlap),
                                chunk_size, chunk_overlap)
             ELSE SplitLoop(paragraphs, k + 1, chunks,
                            IF current.text # <<>>
                            THEN Chunk(current.text \o <<"\n", "\n">> \o paragraph, current.pre)
                            ELSE Chunk(paragraph, 0),
                            chunk_size, chunk_overlap)

\* split_text(text, chunk_size, chunk_overlap); `x or default` takes the
\* default for None and for 0.
split_text(text, chunk_size, chunk_overlap) ==
    LET size == IF chunk_size = 0 THEN DefaultChunkSize ELSE chunk_size
        overlap == IF chunk_overlap = 0 THEN DefaultChunkOverlap ELSE chunk_overlap
    IN  IF text = <<>> THEN <<>>
        ELSE SplitLoop(_split_by_paragraphs(text), 1, <<>>, NoChunk, size, overlap)


(***************************************************************************)
(* The Vector Index and the Document Source, as the server sees them.      *)
(***************************************************************************)
MaxCands == 2
MaxMatches == 2
MaxTopK == 2
MaxDocs == 2
\* sync: a collection lists at most MaxListed documents
MaxListed == 2
\* extract_text: a page body is made of at most MaxTokens pieces
MaxTokens == 4
\* get_space_pages: the Document Source returns at most MaxFullPages full pages
\* before a short one
MaxFullPages == 2
\* get_recent_updates: the day of the month is in 1..MaxDay, days in 0..MaxDays
MaxDay == 3
MaxDays == 3

ShortText == <<"a", ".">>

\* A text of twelve sentences of 99 characters: split_text(_, 512, 50) cuts it
\* into three chunks
ThreeChunkText ==
    [i \in 1..1199 |-> IF i % 100 = 99 THEN "." ELSE IF i % 100 = 0 THEN " " ELSE "a"]

\* An entry of the index: id "{page_id}_{chunk_index}" and its metadata
Entry(page, i, sp, txt) ==
    [id |-> <<page, i>>, page_id |-> page, page_title |-> page, space |-> sp,
     chunk_index |-> i, text |-> txt]

\* An entry written by another tool: its metadata has no page_id and no space
ForeignEntry ==
    [id |-> <<"x", 0>>, page_id |-> "", page_title |-> "Untitled", space |-> "unknown",
     chunk_index |-> 0, text |-> <<>>]

\* What the index may hold when the server starts
IndexPool ==
    {Entry("p1", 0, "DOC", <<"a">>), Entry("p1", 1, "DOC", <<".">>),
     Entry("p2", 0, "OPS", <<"a">>), ForeignEntry}

PageIds == {"p1", "p2"}

\* The page the Document Source holds under an id; content is the plain text
\* extract_text gets from its body
Page(page_id) ==
    IF page_id = "p1"
    THEN [title |-> "T1", space |-> "DOC", content |-> ShortText]
    ELSE [title |-> "T2", space |-> "OPS", content |-> <<>>]

\* A document record as _search_knowledge and _sync_knowledge_source build it
Doc(page_id, t, c, sp) == [id |-> page_id, title |-> t, content |-> c, space |-> sp]

\* dict.get defaults of a page whose fetch gave the transport's error object
\* {"results": [], "error": ...}: no title, no body, no space
ErrorDoc(page_id) == Doc(page_id, "Untitled", <<>>, "unknown")

\* All sequences over S of length at most n
SeqsUpTo(S, n) == UNION {[1..k -> S] : k \in 0..n}

\* Sequences without a repeated element
IsInjective(q) == \A i, j \in 1..Len(q) : i # j => q[i] # q[j]

(***************************************************************************)
(* vector_client.py                                                        *)
(***************************************************************************)
NoCalls == [embed_chunks |-> 0, embed_query |-> 0, queries |-> 0,
            upserts |-> <<>>, deletes |-> <<>>]

\* VectorStoreClient.upsert(vectors) against an index that accepts
\* (upstream = "ok") or fails: entries with an existing id are replaced
VectorUpsert(idx, vectors, upstream) ==
    IF vectors = <<>> THEN [index |-> idx, sent |-> <<>>, result |-> "empty"]
    ELSE IF upstream = "ok"
    THEN [index |-> {e \in idx : \A k \in 1..Len(vectors) : vectors[k].id # e.id}
                    \cup {vectors[k] : k \in 1..Len(vectors)},
          sent |-> <<vectors>>, result |-> "success"]
    ELSE [index |-> idx, sent |-> <<vectors>>, result |-> "error"]

\* VectorStoreClient.delete(ids, delete_all); ids = {} stands for None and [].
\* result: "success" or "error"; sent: the delete requests issued to the index.
VectorDelete(idx, ids, delete_all, upstream) ==
    IF delete_all
    THEN [index |-> IF upstream = "ok" THEN {} ELSE idx,
          sent |-> <<[all |-> TRUE, ids |-> {}]>>,
          result |-> IF upstream = "ok" THEN "success" ELSE "error", raised |-> FALSE]
    ELSE IF ids # {}
    THEN [index |-> IF upstream = "ok" THEN {e \in idx : e.id \notin ids} ELSE idx,
          sent |-> <<[all |-> FALSE, ids |-> ids]>>,
          result |-> IF upstream = "ok" THEN "success" ELSE "error", raised |-> FALSE]
    ELSE [index |-> idx, sent |-> <<>>, result |-> "error", raised |-> FALSE]

\* VectorStoreClient.search(query, top_k): the embedding of the query is made
\* outside the try block and may raise; a failing index query gives no matches
VectorSearch(matches, outcome) ==
    [raised |-> outcome = "embed_raises",
     matches |-> IF outcome = "ok" THEN matches ELSE <<>>,
     embed_query |-> 1,
     queries |-> IF outcome = "embed_raises" THEN 0 ELSE 1]

(***************************************************************************)
(* server.py: _index_documents                                             *)
(***************************************************************************)
\* def split_text(self, text, chunk_size=None, chunk_overlap=None)
SplitTextParams == {"text", "chunk_size", "chunk_overlap"}

\* self.text_processor.split_text(doc["content"], chunk_size=512, overlap=50)
IndexSplitKeywords == {"chunk_size", "overlap"}

\* A Python call with a keyword the function does not declare raises TypeError
CallBinds(params, keywords) == keywords \subseteq params

\* The entries of one document: one per chunk, id "{doc id}_{i}", i from 0
DocEntries(doc, text_chunks) ==
    [k \in 1..Len(text_chunks) |->
        [id |-> <<doc.id, k - 1>>, page_id |-> doc.id, page_title |-> doc.title,
         space |-> doc.space, chunk_index |-> k - 1,
         text |-> Prefix(text_chunks[k].text, PreviewLen)]]

\* The loop over documents k..Len(documents); chunks holds the entries so far.
\* embed_fail_at = n > 0: the n-th embedding call raises.
RECURSIVE IndexLoop(_, _, _, _)
IndexLoop(documents, k, chunks, embed_fail_at) ==
    IF k > Len(documents) THEN [raised |-> "", chunks |-> chunks, embeds |-> Len(chunks)]
    ELSE IF ~CallBinds(SplitTextParams, IndexSplitKeywords)
    THEN [raised |-> "TypeError", chunks |-> chunks, embeds |-> Len(chunks)]
    ELSE LET text_chunks == split_text(documents[k].content, IngestChunkSize, IngestOverlap)
             n == Len(chunks) + Len(text_chunks)
         IN  IF embed_fail_at > 0 /\ embed_fail_at <= n
             THEN [raised |-> "EmbeddingError", chunks |-> chunks, embeds |-> embed_fail_at]
             ELSE IndexLoop(documents, k + 1,
                            chunks \o DocEntries(documents[k], text_chunks), embed_fail_at)

\* An ingest that first removes what the index holds of the batch's documents
_index_documents_purging(idx, documents, embed_fail_at, upstream) ==
    LET purged == {e \in idx : \A k \in 1..Len(documents) : documents[k].id # e.page_id}
        loop == IndexLoop(documents, 1, <<>>, embed_fail_at)
        up == VectorUpsert(purged, loop.chunks, upstream)
    IN  IF loop.raised # ""
        THEN [raised |-> loop.raised, ret |-> 0, index |-> purged,
              embed_chunks |-> loop.embeds, upserts |-> <<>>]
        ELSE [raised |-> "", ret |-> Len(loop.chunks), index |-> up.index,
              embed_chunks |-> loop.embeds, upserts |-> up.sent]

\* _index_documents(documents): what it returns or raises, the calls it makes
\* and the index it leaves
_index_documents(idx, documents, embed_fail_at, upstream) ==
    LET loop == IndexLoop(documents, 1, <<>>, embed_fail_at)
        up == VectorUpsert(idx, loop.chunks, upstream)
    IN  IF loop.raised # ""
        THEN [raised |-> loop.raised, ret |-> 0, index |-> idx,
              embed_chunks |-> loop.embeds, upserts |-> <<>>]
        ELSE [raised |-> "", ret |-> Len(loop.chunks), index |-> up.index,
              embed_chunks |-> loop.embeds, upserts |-> up.sent]

(***************************************************************************)
(* server.py: _search_knowledge and _merge_results                         *)
(***************************************************************************)
\* The documents built from the candidates k..Len(results): a candidate
\* without an id is passed over; get_page_content gives the page, or the
\* transport's error object when the request failed, and both are truthy
RECURSIVE BuildDocuments(_, _, _)
BuildDocuments(results, fetch, k) ==
    IF k > Len(results) THEN <<>>
    ELSE LET page_id == results[k]
             rest == BuildDocuments(results, fetch, k + 1)
         IN  IF page_id = "" THEN rest
             ELSE IF fetch[k] = "ok"
             THEN <<Doc(page_id, Page(page_id).title, Page(page_id).content,
                        Page(page_id).space)>> \o rest
             ELSE <<ErrorDoc(page_id)>> \o rest

\* page_id not in seen_ids
IsNewAlways(page_id, seen_ids) == TRUE

IsNew(page_id, seen_ids) == page_id \notin seen_ids

\* for match in vector_results["matches"][:top_k]
RECURSIVE MergeMatches(_, _, _, _)
MergeMatches(matches, k, seen_ids, final_results) ==
    IF k > Len(matches) THEN [seen_ids |-> seen_ids, final_results |-> final_results]
    ELSE LET metadata == matches[k]
             page_id == metadata.page_id
         IN  IF page_id # "" /\ IsNew(page_id, seen_ids)
             THEN MergeMatches(matches, k + 1, seen_ids \cup {page_id},
                      Append(final_results,
                             [id |-> page_id, title |-> metadata.page_title,
                              space |-> metadata.space, relevance |-> "high",
                              preview |-> metadata.text]))
             ELSE MergeMatches(matches, k + 1, seen_ids, final_results)

\* for doc in documents[:top_k]
RECURSIVE MergeDocs(_, _, _, _)
MergeDocs(documents, k, seen_ids, final_results) ==
    IF k > Len(documents) THEN final_results
    ELSE LET doc == documents[k]
         IN  IF IsNew(doc.id, seen_ids)
             THEN MergeDocs(documents, k + 1, seen_ids \cup {doc.id},
                      Append(final_results,
                             [id |-> doc.id, title |-> doc.title, space |-> doc.space,
                              relevance |-> "medium",
                              preview |-> Prefix(doc.content, PreviewLen) \o <<".", ".", ".">>]))
             ELSE MergeDocs(documents, k + 1, seen_ids, final_results)

_merge_results_blend(documents, matches, top_k) ==
    LET vec == MergeMatches(Prefix(matches, top_k), 1, {}, <<>>)
    IN  MergeDocs(Prefix(documents, top_k), 1, vec.seen_ids, vec.final_results)

_merge_results(documents, matches, top_k) ==
    LET vec == MergeMatches(Prefix(matches, top_k), 1, {}, <<>>)
    IN  IF vec.final_results = <<>>
        THEN MergeDocs(Prefix(documents, top_k), 1, vec.seen_ids, vec.final_results)
        ELSE vec.final_results

\* list(set([r.get("space", "unknown") for r in final_results]))
SourcesOrUnknown(final_results) ==
    {final_results[k].space : k \in 1..Len(final_results)} \cup {"unknown"}

Sources(final_results) == {final_results[k].space : k \in 1..Len(final_results)}

\* Every candidate, without the cap
CandidatesAll(results) == results

\* for result in search_results.get("results", [])[:10]
Candidates(results) == Prefix(results, CandidateCap)

\* The page ids whose content search requests, in order
Fetched(results) == SelectSeq(Candidates(results), LAMBDA page_id : page_id # "")

\* The vector query without its except clause
VectorExceptNone(found) == found

\* try: vector_results = self.vector_client.search(query, top_k)
\* except Exception: vector_results = {"matches": []}
VectorExcept(found) == [found EXCEPT !.raised = FALSE, !.matches = IF found.raised THEN <<>> ELSE @]

\* _search_knowledge: results is what search_pages returned (the ids of the
\* candidates, "" for one without an id), fetch the outcome of each page
\* request, matches what the index query returns when it succeeds
_search_knowledge(idx, results, fetch, top_k, matches, vector, embed_fail_at, upstream) ==
    LET documents == BuildDocuments(Candidates(results), fetch, 1)
        ingest == IF documents # <<>>
                  THEN _index_documents(idx, documents, embed_fail_at, upstream)
                  ELSE [raised |-> "", ret |-> 0, index |-> idx,
                        embed_chunks |-> 0, upserts |-> <<>>]
        found == VectorExcept(VectorSearch(matches, vector))
        final_results == _merge_results(documents, found.matches, top_k)
    IN  [index |-> ingest.index,
         documents |-> documents,
         ingest_raised |-> ingest.raised,
         fetched |-> Fetched(results),
         resp |-> [raised |-> IF found.raised THEN "EmbeddingError" ELSE "",
                   results |-> final_results,
                   total_found |-> Len(final_results),
                   sources |-> Sources(final_results)],
         calls |-> [embed_chunks |-> ingest.embed_chunks,
                    embed_query |-> found.embed_query,
                    queries |-> found.queries,
                    upserts |-> ingest.upserts,
                    deletes |-> <<>>]]

(***************************************************************************)
(* The tool handler.                                                       *)
(***************************************************************************)
ToolNames ==
    {"search_knowledge", "sync_knowledge_source", "get_space_info", "get_recent_updates"}

\* _get_space_info: get_all_spaces never raises (a failed request is an
\* empty list), and the comprehension only reads with .get
_get_space_info == [raised |-> "", payload |-> "success"]

\* _get_recent_updates: datetime.replace(day = today - days) raises
\* ValueError when that day is not a day of the month
_get_recent_updates(today, days) ==
    IF today - days < 1
    THEN [raised |-> "ValueError", payload |-> "none"]
    ELSE [raised |-> "", payload |-> "success"]

\* What the body of call_tool's try block comes to for a tool that is not run
\* by Search or Sync: arguments["query"] raises KeyError when the key is
\* missing, an unknown name makes result the error object
Dispatch(name, has_query, today, days) ==
    CASE name = "search_knowledge" /\ ~has_query -> [raised |-> "KeyError", payload |-> "none"]
      [] name = "get_space_info" -> _get_space_info
      [] name = "get_recent_updates" -> _get_recent_updates(today, days)
      [] OTHER -> [raised |-> "", payload |-> "error"]

\* call_tool without its except clause
call_tool_uncaught(outcome) ==
    IF outcome.raised # ""
    THEN [escaped |-> TRUE, payload |-> "none", message |-> outcome.raised]
    ELSE [escaped |-> FALSE, payload |-> outcome.payload, message |-> ""]

\* call_tool: the result is serialised; except Exception turns whatever the
\* try block raised into {"error": str(e)}
call_tool(outcome) ==
    IF outcome.raised # ""
    THEN [escaped |-> FALSE, payload |-> "error", message |-> outcome.raised]
    ELSE [escaped |-> FALSE, payload |-> outcome.payload, message |-> ""]

(***************************************************************************)
(* server.py: _sync_knowledge_source                                       *)
(***************************************************************************)
SpaceKeys == {"DOC", "OPS"}

\* The documents built from the listed pages k..Len(pages) of one collection:
\* get_page_content gives the page, or the transport's error object when the
\* request failed; both are truthy, and the error object has no title, no
\* body and no space, so the space defaults to the collection being synced
RECURSIVE SyncDocuments(_, _, _, _)
SyncDocuments(space, pages, fetch, k) ==
    IF k > Len(pages) THEN <<>>
    ELSE LET page_id == pages[k]
             doc == IF fetch[k] = "ok"
                    THEN Doc(page_id, Page(page_id).title, Page(page_id).content,
                             Page(page_id).space)
                    ELSE Doc(page_id, "Untitled", <<>>, space)
         IN  <<doc>> \o SyncDocuments(space, pages, fetch, k + 1)

\* except Exception as e: print(...); continue -- what is left of an
\* exception raised while one collection was processed
SyncExceptPropagates(raised) == raised

SyncExcept(raised) == ""

\* The state of the sync loop before the first collection
SyncStart(idx) ==
    [index |-> idx, total_documents |-> 0, total_chunks |-> 0, raised |-> "",
     log |-> <<>>, failed |-> {}, embed_chunks |-> 0, upserts |-> <<>>]

\* if documents: chunk_count = await self._index_documents(documents)
SyncIngest(idx, documents, embed_fail_at, upstream) ==
    IF documents # <<>>
    THEN _index_documents(idx, documents, embed_fail_at, upstream)
    ELSE [raised |-> "", ret |-> 0, index |-> idx, embed_chunks |-> 0, upserts |-> <<>>]

\* The loop state after the k-th collection, whose pages made documents and
\* whose ingest step came to ingest: the totals grow only when the step
\* returned.  log records the calls in order, failed the collections whose
\* processing raised.
SyncAfter(st, space, pages, documents, ingest, k) ==
    [index |-> ingest.index,
     total_documents |-> st.total_documents
                           + (IF documents # <<>> /\ ingest.raised = ""
                              THEN Len(documents) ELSE 0),
     total_chunks |-> st.total_chunks
                        + (IF documents # <<>> /\ ingest.raised = "" THEN ingest.ret ELSE 0),
     raised |-> IF ingest.raised # "" THEN SyncExcept(ingest.raised) ELSE "",
     log |-> st.log \o <<<<"list", space>>>>
                \o [j \in 1..Len(pages) |-> <<"fetch", pages[j]>>]
                \o (IF documents # <<>> THEN <<<<"ingest", space>>>> ELSE <<>>),
     failed |-> st.failed \cup (IF ingest.raised # "" THEN {k} ELSE {}),
     embed_chunks |-> st.embed_chunks + ingest.embed_chunks,
     upserts |-> st.upserts \o ingest.upserts]

\* The body of the loop for one collection once its documents are built
SyncBatch(st, space, pages, documents, k, embed_fail_at, upstream) ==
    SyncAfter(st, space, pages, documents,
              SyncIngest(st.index, documents, embed_fail_at, upstream), k)

\* for space in spaces, from the k-th on.  listing[k] is what get_space_pages
\* returned for spaces[k], fetch[k][j] the outcome of the request for its j-th
\* page.
RECURSIVE SyncLoop(_, _, _, _, _, _, _)
SyncLoop(st, spaces, listing, fetch, k, embed_fail_at, upstream) ==
    IF k > Len(spaces) \/ st.raised # "" THEN st
    ELSE SyncLoop(SyncBatch(st, spaces[k], listing[k],
                            SyncDocuments(spaces[k], listing[k], fetch[k], 1),
                            k, embed_fail_at, upstream),
                  spaces, listing, fetch, k + 1, embed_fail_at, upstream)

\* spaces = [space_key] if space_key else get_all_space_keys()
SyncSpaces(space_key, all_keys) == IF space_key # "" THEN <<space_key>> ELSE all_keys

\* return {"status": "success", "spaces_synced": len(spaces), ...}, with the
\* index the loop left and the calls it made
SyncResult(done, spaces, full_sync) ==
    [index |-> done.index,
     resp |-> [raised |-> done.raised, status |-> "success",
               spaces_synced |-> Len(spaces),
               documents_indexed |-> done.total_documents,
               chunks_created |-> done.total_chunks,
               sync_type |-> IF full_sync THEN "full" ELSE "incremental"],
     calls |-> [embed_chunks |-> done.embed_chunks, embed_query |-> 0, queries |-> 0,
                upserts |-> done.upserts, deletes |-> <<>>, log |-> done.log,
                failed |-> done.failed]]

\* A sync whose incremental mode passes over the listed documents
_sync_knowledge_source_skipping(idx, space_key, all_keys, listing, fetch, full_sync, embed_fail_at, upstream) ==
    SyncResult(SyncLoop(SyncStart(idx), SyncSpaces(space_key, all_keys),
                        IF full_sync THEN listing ELSE [k \in DOMAIN listing |-> <<>>],
                        fetch, 1, embed_fail_at, upstream),
               SyncSpaces(space_key, all_keys), full_sync)

\* _sync_knowledge_source(space_key, full_sync); space_key = "" stands for
\* None, all_keys is what get_all_space_keys returns
_sync_knowledge_source(idx, space_key, all_keys, listing, fetch, full_sync, embed_fail_at, upstream) ==
    SyncResult(SyncLoop(SyncStart(idx), SyncSpaces(space_key, all_keys), listing, fetch, 1,
                        embed_fail_at, upstream),
               SyncSpaces(space_key, all_keys), full_sync)

(***************************************************************************)
(* The server: one action per operation, and the return to the caller.     *)
(***************************************************************************)
\* The documents handed to _index_documents when it is called on its own
DocPool ==
    {Doc("d1", "D1", ThreeChunkText, "DOC"), Doc("d2", "D2", ThreeChunkText, "OPS"),
     Doc("d3", "D3", <<>>, "OPS"), Doc("d4", "D4", ShortText, "DOC")}

EntryIds == {e.id : e \in IndexPool}

\* Candidate lists longer than the cap: search_pages asks for up to 20 results.
\* Only the first MaxCands fetches of such a list may fail.
LongCandidates ==
    {[i \in 1..(CandidateCap + n) |-> IF i % 2 = 1 THEN "p1" ELSE "p2"] : n \in 1..2}

\* What the segmenter's variables hold while the server is examined
SegIdle ==
    /\ seg_pc = "idle"
    /\ seg_text = <<>>
    /\ seg_size = 0
    /\ seg_overlap = 0
    /\ seg_chunks = <<>>

\* What get_space_pages' variables hold while it is not the operation examined
LstIdle ==
    /\ lst_pc = "idle"
    /\ lst_start = 0
    /\ lst_all_pages = <<>>
    /\ lst_requests = <<>>
    /\ lst_received = <<>>

\* What extract_text's variables hold while it is not the operation examined
NrmIdle ==
    /\ nrm_pc = "idle"
    /\ nrm_text = <<>>
    /\ nrm_once = <<>>
    /\ nrm_twice = <<>>

\* No call_tool reply: the operation was not reached through the tool handler
NoReply == [escaped |-> FALSE, payload |-> "none", message |-> ""]

Init ==
    /\ index \in SUBSET IndexPool
    /\ op = "none"
    /\ args = <<>>
    /\ resp = <<>>
    /\ calls = <<>>
    /\ reply = NoReply
    /\ SegIdle
    /\ LstIdle
    /\ NrmIdle

\* search(query, collectionKey, topK).  The index query runs after the
\* ingestion step, so its matches are entries of the index as ingestion left it.
Search ==
    /\ op = "none"
    /\ \E results \in SeqsUpTo(PageIds \cup {""}, MaxCands) \cup LongCandidates,
          top_k \in 0..MaxTopK,
          vector \in {"ok", "embed_raises", "query_fails"},
          embed_fail_at \in 0..1, upstream \in {"ok", "fail"} :
       \E head \in [1..Min({Len(results), MaxCands}) -> {"ok", "fail"}] :
          LET fetch == [k \in 1..Len(results) |-> IF k <= MaxCands THEN head[k] ELSE "ok"]
              documents == BuildDocuments(Candidates(results), fetch, 1)
              after == IF documents # <<>>
                       THEN _index_documents(index, documents, embed_fail_at, upstream).index
                       ELSE index
          IN  \E matches \in {q \in SeqsUpTo(after, MaxMatches) : IsInjective(q)} :
                 /\ \A k \in 1..Len(results) : results[k] = "" => fetch[k] = "ok"
                 /\ vector # "ok" => matches = <<>>
                 /\ LET r == _search_knowledge(index, results, fetch, top_k, matches,
                                               vector, embed_fail_at, upstream)
                    IN  /\ index' = r.index
                        /\ op' = "search"
                        /\ args' = [results |-> results, fetch |-> fetch, top_k |-> top_k,
                                    matches |-> matches, vector |-> vector,
                                    documents |-> r.documents,
                                    ingest_raised |-> r.ingest_raised,
                                    fetched |-> r.fetched,
                                    index_before |-> index]
                        /\ resp' = r.resp
                        /\ calls' = r.calls
                        /\ reply' = call_tool([raised |-> r.resp.raised,
                                               payload |-> "success"])
    /\ UNCHANGED <<segVars, lstVars, nrmVars>>

\* ingest(documents)
Ingest ==
    /\ op = "none"
    /\ \E documents \in SeqsUpTo(DocPool, MaxDocs), embed_fail_at \in 0..1,
          upstream \in {"ok", "fail"} :
          LET r == _index_documents(index, documents, embed_fail_at, upstream)
          IN  /\ index' = r.index
              /\ op' = "ingest"
              /\ args' = [documents |-> documents, embed_fail_at |-> embed_fail_at,
                          upstream |-> upstream, index_before |-> index]
              /\ resp' = [raised |-> r.raised, ret |-> r.ret]
              /\ calls' = [NoCalls EXCEPT !.embed_chunks = r.embed_chunks,
                                          !.upserts = r.upserts]
              /\ reply' = NoReply
    /\ UNCHANGED <<segVars, lstVars, nrmVars>>

\* vector_client.delete(ids, delete_all)
Delete ==
    /\ op = "none"
    /\ \E ids \in SUBSET EntryIds, delete_all \in BOOLEAN, upstream \in {"ok", "fail"} :
          LET r == VectorDelete(index, ids, delete_all, upstream)
          IN  /\ index' = r.index
              /\ op' = "delete"
              /\ args' = [ids |-> ids, delete_all |-> delete_all,
                          upstream |-> upstream, index_before |-> index]
              /\ resp' = [raised |-> r.raised, result |-> r.result]
              /\ calls' = [NoCalls EXCEPT !.deletes = r.sent]
              /\ reply' = NoReply
    /\ UNCHANGED <<segVars, lstVars, nrmVars>>

\* call_tool(name, arguments) for the tools that touch no index: a search
\* without its query, get_space_info, get_recent_updates, an unknown name
CallTool ==
    /\ op = "none"
    /\ \E name \in (ToolNames \ {"sync_knowledge_source"}) \cup {"no_such_tool"},
          has_query \in BOOLEAN, today \in 1..MaxDay, days \in 0..MaxDays :
          /\ name = "search_knowledge" => ~has_query
          /\ LET outcome == Dispatch(name, has_query, today, days)
             IN  /\ op' = "tool"
                 /\ args' = [name |-> name, has_query |-> has_query,
                             today |-> today, days |-> days]
                 /\ resp' = outcome
                 /\ reply' = call_tool(outcome)
    /\ calls' = NoCalls
    /\ UNCHANGED index
    /\ UNCHANGED <<segVars, lstVars, nrmVars>>

\* What get_space_pages may return for a collection: each page at most once
Listings == {q \in SeqsUpTo(PageIds, MaxListed) : IsInjective(q)}

\* sync(collectionKey, fullSync), reached through call_tool.  A collection
\* whose listing failed comes back from get_space_pages as an empty list.
Sync ==
    /\ op = "none"
    /\ \E space_key \in SpaceKeys \cup {""},
          all_keys \in {<<>>, <<"DOC">>, <<"DOC", "OPS">>},
          full_sync \in BOOLEAN, embed_fail_at \in 0..1, upstream \in {"ok", "fail"} :
       LET spaces == SyncSpaces(space_key, all_keys)
       IN  \E listing \in [1..Len(spaces) -> Listings],
              list_fail \in SUBSET (1..Len(spaces)),
              fetch \in [1..Len(spaces) -> [1..MaxListed -> {"ok", "fail"}]] :
              /\ space_key # "" => all_keys = <<>>
              /\ \A k \in list_fail : listing[k] = <<>>
              /\ \A k \in 1..Len(spaces) :
                    \A j \in 1..MaxListed : j > Len(listing[k]) => fetch[k][j] = "ok"
              /\ embed_fail_at = 1 => upstream = "ok"
              /\ LET r == _sync_knowledge_source(index, space_key, all_keys, listing, fetch,
                                                 full_sync, embed_fail_at, upstream)
                 IN  /\ index' = r.index
                     /\ resp' = r.resp
                     /\ calls' = r.calls
              /\ op' = "sync"
              /\ args' = [space_key |-> space_key, all_keys |-> all_keys,
                          spaces |-> spaces,
                          listing |-> listing, list_fail |-> list_fail,
                          fetch |-> fetch, full_sync |-> full_sync,
                          embed_fail_at |-> embed_fail_at, upstream |-> upstream,
                          index_before |-> index]
              /\ reply' = call_tool([raised |-> resp'.raised, payload |-> "success"])
    /\ UNCHANGED <<segVars, lstVars, nrmVars>>

\* The response goes back to the caller; the server waits for the next call
Return ==
    /\ op # "none"
    /\ op' = "none"
    /\ args' = <<>>
    /\ resp' = <<>>
    /\ calls' = <<>>
    /\ reply' = NoReply
    /\ UNCHANGED index
    /\ UNCHANGED <<segVars, lstVars, nrmVars>>

Next == Search \/ Ingest \/ Delete \/ Sync \/ CallTool \/ Return

Spec == Init /\ [][Next]_vars

(***************************************************************************)
(* Properties of search.                                                   *)
(***************************************************************************)
Range(q) == {q[k] : k \in 1..Len(q)}

\* The first position of q whose element satisfies id-equality, 0 when none
FirstWithPage(matches, page_id) ==
    LET at == {k \in 1..Len(matches) : matches[k].page_id = page_id}
    IN  IF at = {} THEN 0 ELSE Min(at)

FirstWithId(documents, id) ==
    LET at == {k \in 1..Len(documents) : documents[k].id = id}
    IN  IF at = {} THEN 0 ELSE Min(at)

\* C1: the results of a search are all relevance=high, each built from a
\* vector match, or all relevance=medium, each built from a fetched
\* document-source candidate; never both tiers in one response.
C1_MergeExclusivity ==
    op = "search" =>
        LET rs == resp.results
        IN  \/ \A k \in 1..Len(rs) :
                  /\ rs[k].relevance = "high"
                  /\ \E m \in 1..Len(args.matches) : args.matches[m].page_id = rs[k].id
            \/ \A k \in 1..Len(rs) :
                  /\ rs[k].relevance = "medium"
                  /\ \E d \in 1..Len(args.documents) : args.documents[d].id = rs[k].id

\* C1's case: a search with vector matches and fetched candidates at hand,
\* answered with results
C1_Witness ==
    /\ op = "search"
    /\ args.top_k >= 1
    /\ args.documents # <<>>
    /\ \E m \in 1..Len(args.matches) : args.matches[m].page_id # ""
    /\ resp.results # <<>>

\* C2: no two results of a search have the same document id, and the result
\* kept for a document is built from its first occurrence in the source list
\* (the first topK matches, or the first topK fetched documents).
C2_Dedup ==
    op = "search" =>
        LET rs == resp.results
            ms == Prefix(args.matches, args.top_k)
            ds == Prefix(args.documents, args.top_k)
        IN  /\ \A i, j \in 1..Len(rs) : i # j => rs[i].id # rs[j].id
            /\ \A k \in 1..Len(rs) :
                  IF rs[k].relevance = "high"
                  THEN LET f == FirstWithPage(ms, rs[k].id)
                       IN  /\ f > 0
                           /\ rs[k].preview = ms[f].text
                           /\ rs[k].title = ms[f].page_title
                           /\ rs[k].space = ms[f].space
                  ELSE LET f == FirstWithId(ds, rs[k].id)
                       IN  /\ f > 0
                           /\ rs[k].title = ds[f].title
                           /\ rs[k].space = ds[f].space
                           /\ rs[k].preview =
                                  Prefix(ds[f].content, PreviewLen) \o <<".", ".", ".">>

\* C2's case: two chunks of one page among the matches used, or one page twice
\* among the documents used, the two occurrences differing
C2_Witness ==
    /\ op = "search"
    /\ resp.results # <<>>
    /\ \/ \E i, j \in 1..Len(Prefix(args.matches, args.top_k)) :
             /\ i < j
             /\ args.matches[i].page_id = args.matches[j].page_id
             /\ args.matches[i].page_id # ""
             /\ args.matches[i].text # args.matches[j].text
       \/ /\ resp.results[1].relevance = "medium"
          /\ \E i, j \in 1..Len(Prefix(args.documents, args.top_k)) :
                /\ i < j
                /\ args.documents[i].id = args.documents[j].id
                /\ args.documents[i] # args.documents[j]

\* C9: a search that finds no candidate and no vector match returns no
\* results, totalFound 0 and no sources, and runs no ingestion: no chunk is
\* embedded and nothing is upserted.
C9_EmptySearch ==
    (op = "search" /\ args.results = <<>> /\ args.matches = <<>>) =>
        /\ resp.raised = ""
        /\ resp.results = <<>>
        /\ resp.total_found = 0
        /\ resp.sources = {}
        /\ calls.embed_chunks = 0
        /\ calls.upserts = <<>>
        /\ index = args.index_before

\* C9's case: such a search against an index that holds entries, the vector
\* query having succeeded
C9_Witness ==
    /\ op = "search"
    /\ args.results = <<>>
    /\ args.matches = <<>>
    /\ args.vector = "ok"
    /\ args.top_k >= 1
    /\ index # {}

\* The candidates search fetched whose request succeeded
FetchedOk == {k \in 1..Min({Len(args.results), CandidateCap}) :
                 args.results[k] # "" /\ args.fetch[k] = "ok"}

\* C13 (as claimed): a candidate whose fetch fails is skipped: it makes no
\* document record (so none reaches ingestion) and cannot appear among the
\* medium results; the other candidates are still fetched and make one
\* record each.
C13_FailedFetchSkipped ==
    op = "search" =>
        /\ Len(args.documents) = Cardinality(FetchedOk)
        /\ \A k \in FetchedOk : \E j \in 1..Len(args.documents) :
              args.documents[j].id = args.results[k]
        /\ \A i \in 1..Len(resp.results) :
              resp.results[i].relevance = "medium" =>
                  \E k \in FetchedOk : args.results[k] = resp.results[i].id

\* Some match among the first top_k carries a page id
VectorProduced ==
    \E k \in 1..Min({args.top_k, Len(args.matches)}) : args.matches[k].page_id # ""

\* The results are the fallback over the fetched candidates: the distinct ids
\* of the first top_k documents, each once, all of relevance medium
IsFallback ==
    /\ \A i \in 1..Len(resp.results) : resp.results[i].relevance = "medium"
    /\ \A i, j \in 1..Len(resp.results) :
          i # j => resp.results[i].id # resp.results[j].id
    /\ Len(resp.results) <= args.top_k
    /\ {resp.results[i].id : i \in 1..Len(resp.results)}
          = {args.documents[k].id : k \in 1..Min({args.top_k, Len(args.documents)})}

\* C14: a failing vector query (the embedding call raising, or the index
\* query failing) and a failing ingestion step never make search raise or
\* answer with an error: the match list counts as empty and the response is
\* the fallback over the fetched candidates (at most top_k, deduplicated, all
\* medium).  The fallback is used exactly when no vector-sourced result was
\* produced.
C14_VectorFailureFallsBack ==
    op = "search" =>
        /\ resp.raised = ""
        /\ reply.payload = "success"
        /\ args.vector # "ok" => IsFallback
        /\ ~VectorProduced => IsFallback
        /\ VectorProduced =>
              \A i \in 1..Len(resp.results) : resp.results[i].relevance = "high"

\* The ingestion step raised, the index query failed, and search still
\* answered with the fetched candidate
C14_Witness ==
    /\ op = "search"
    /\ args.ingest_raised = "TypeError"
    /\ args.vector = "query_fails"
    /\ args.top_k >= 1
    /\ resp.raised = ""
    /\ Len(resp.results) = 1
    /\ resp.results[1].relevance = "medium"
    /\ resp.results[1].id = args.documents[1].id

(***************************************************************************)
(* Properties of ingest.                                                   *)
(***************************************************************************)
\* The number of chunks a document's text segments into
NumChunks(doc) == Len(split_text(doc.content, IngestChunkSize, IngestOverlap))

RECURSIVE TotalChunks(_, _)
TotalChunks(documents, k) ==
    IF k > Len(documents) THEN 0
    ELSE NumChunks(documents[k]) + TotalChunks(documents, k + 1)

\* The ids "{source_id}_{index}", index 0..n-1, of every document
ExpectedIds(documents) ==
    UNION {{<<documents[k].id, i>> : i \in 0..(NumChunks(documents[k]) - 1)} :
              k \in 1..Len(documents)}

\* C3 (as claimed): with the embedding and upsert calls succeeding, one ingest
\* call embeds every chunk once, issues exactly one upsert carrying one entry
\* per chunk with ids "{source_id}_{index}", and returns the number of chunks.
C3_IngestCounts ==
    (/\ op = "ingest"
     /\ args.embed_fail_at = 0
     /\ args.upstream = "ok"
     /\ TotalChunks(args.documents, 1) > 0) =>
        /\ resp.raised = ""
        /\ resp.ret = TotalChunks(args.documents, 1)
        /\ calls.embed_chunks = TotalChunks(args.documents, 1)
        /\ Len(calls.upserts) = 1
        /\ Len(calls.upserts[1]) = TotalChunks(args.documents, 1)
        /\ {calls.upserts[1][k].id : k \in 1..Len(calls.upserts[1])}
               = ExpectedIds(args.documents)

\* C8 (as claimed): ingest of no documents, or of documents whose texts are
\* all empty, returns 0, embeds nothing, upserts nothing and leaves the index
\* as it was.
C8_EmptyIngest ==
    (/\ op = "ingest"
     /\ \A k \in 1..Len(args.documents) : args.documents[k].content = <<>>) =>
        /\ resp.raised = ""
        /\ resp.ret = 0
        /\ calls.embed_chunks = 0
        /\ calls.upserts = <<>>
        /\ index = args.index_before

(***************************************************************************)
(* Properties of the Vector Index client.                                  *)
(***************************************************************************)
\* C10 (as claimed): delete takes exactly one of its two modes; with neither
\* ids nor deleteAll, or with both, it returns an error result without raising
\* and without issuing a delete to the index; only with exactly one mode does
\* it delete.
C10_DeleteExactlyOneMode ==
    op = "delete" =>
        LET one_mode == (args.ids # {}) # args.delete_all
        IN  /\ resp.raised = FALSE
            /\ ~one_mode => (resp.result = "error" /\ calls.deletes = <<>>
                             /\ index = args.index_before)
            /\ one_mode => Len(calls.deletes) = 1

(***************************************************************************)
(* Properties of the tool handler.                                         *)
(***************************************************************************)
\* C11: whatever the tool name (one of the four or an unknown one), whatever
\* the arguments (a search without its query included) and whatever the
\* invoked operation raised, call_tool returns a JSON payload, a success
\* object or an {error} object, and no exception escapes it: a raised
\* exception and an unknown name both come back as the {error} object.
C11_ToolCallNeverRaises ==
    op \in {"tool", "search", "sync"} =>
        /\ reply.escaped = FALSE
        /\ reply.payload \in {"success", "error"}
        /\ resp.raised # "" => (reply.payload = "error" /\ reply.message = resp.raised)
        /\ (op = "tool" /\ args.name \notin ToolNames) => reply.payload = "error"

\* get_recent_updates raised inside the handler and came back as {error}
C11_Witness ==
    /\ op = "tool"
    /\ args.name = "get_recent_updates"
    /\ resp.raised = "ValueError"
    /\ reply = [escaped |-> FALSE, payload |-> "error", message |-> "ValueError"]

(***************************************************************************)
(* Properties of sync.                                                     *)
(***************************************************************************)
\* The documents of every target collection, in the order sync builds them
RECURSIVE ListedDocuments(_, _, _, _)
ListedDocuments(spaces, listing, fetch, k) ==
    IF k > Len(spaces) THEN <<>>
    ELSE SyncDocuments(spaces[k], listing[k], fetch[k], 1)
             \o ListedDocuments(spaces, listing, fetch, k + 1)

\* No listing and no document fetch of this sync failed
SourceHealthy ==
    /\ args.list_fail = {}
    /\ \A k \in 1..Len(args.spaces) : \A j \in 1..Len(args.listing[k]) :
          args.fetch[k][j] = "ok"

\* C12 (as claimed): when the listing and every fetch succeed and embedding
\* and upsert succeed, every listed document is passed to ingest, the result
\* has documents_indexed equal to the number of listed documents and
\* chunks_created equal to the number of chunks they segment into, and those
\* chunks are in the index.
C12_SyncCounts ==
    (/\ op = "sync"
     /\ SourceHealthy
     /\ args.embed_fail_at = 0
     /\ args.upstream = "ok") =>
        LET documents == ListedDocuments(args.spaces, args.listing, args.fetch, 1)
        IN  /\ \A k \in 1..Len(args.spaces) :
                  args.listing[k] # <<>> => <<"ingest", args.spaces[k]>> \in Range(calls.log)
            /\ resp.documents_indexed = Len(documents)
            /\ resp.chunks_created = TotalChunks(documents, 1)
            /\ ExpectedIds(documents) \subseteq {e.id : e \in index}

(***************************************************************************)
(* Properties of failure isolation.                                        *)
(***************************************************************************)
\* The position of the document whose first chunk is the first one embedded
FirstEmbedded(documents) ==
    Min({k \in 1..Len(documents) : NumChunks(documents[k]) > 0})

\* C15 (as claimed): when processing one document of a batch fails (here the
\* embedding call for its first chunk raises), ingest does not abort: it does
\* not raise, that document is skipped, and the chunks of the other documents
\* are embedded and upserted.
C15_IngestSkipsFailedDocument ==
    (/\ op = "ingest"
     /\ args.embed_fail_at = 1
     /\ args.upstream = "ok"
     /\ TotalChunks(args.documents, 1) > 0) =>
        /\ resp.raised = ""
        /\ \A k \in 1..Len(args.documents) :
              k # FirstEmbedded(args.documents) =>
                  ExpectedIds(<<args.documents[k]>>) \subseteq {e.id : e \in index}
        /\ calls.embed_chunks
             >= TotalChunks(args.documents, 1)
                  - NumChunks(args.documents[FirstEmbedded(args.documents)])

\* The calls a sync that never stops early makes for the collections k..: the
\* listing, one fetch per listed page, and the ingest of a non-empty batch
RECURSIVE ExpectedLog(_, _, _)
ExpectedLog(spaces, listing, k) ==
    IF k > Len(spaces) THEN <<>>
    ELSE <<<<"list", spaces[k]>>>>
             \o [j \in 1..Len(listing[k]) |-> <<"fetch", listing[k][j]>>]
             \o (IF listing[k] # <<>> THEN <<<<"ingest", spaces[k]>>>> ELSE <<>>)
             \o ExpectedLog(spaces, listing, k + 1)

\* C16: in a sync over several collections a failure while one of them is
\* processed (its listing, a fetch, the ingest of its batch) is not
\* propagated and does not stop the loop: every target collection is listed,
\* every listed page fetched and every non-empty batch handed to ingest, in
\* order, and sync returns its result object.
C16_SyncIsolatesCollections ==
    op = "sync" =>
        /\ resp.raised = ""
        /\ resp.status = "success"
        /\ resp.spaces_synced = Len(args.spaces)
        /\ reply.payload = "success"
        /\ calls.log = ExpectedLog(args.spaces, args.listing, 1)

\* The ingest of the first collection's batch raised, a fetch of the second
\* failed, and the second collection was still listed, fetched and handed to
\* ingest
C16_Witness ==
    /\ op = "sync"
    /\ Len(args.spaces) = 2
    /\ 1 \in calls.failed
    /\ args.listing[2] # <<>>
    /\ args.fetch[2][1] = "fail"
    /\ <<"ingest", args.spaces[2]>> \in Range(calls.log)
    /\ resp.raised = ""

(***************************************************************************)
(* Properties of the sync mode, of deletion and of the search response.    *)
(***************************************************************************)
\* The sync that was run, run again from the same index and the same
\* Document Source with the other value of full_sync
OtherMode ==
    _sync_knowledge_source(args.index_before, args.space_key, args.all_keys, args.listing,
                           args.fetch, ~args.full_sync, args.embed_fail_at, args.upstream)

\* C18: from the same index, the same Document Source and the same
\* space_key, sync with full_sync true and sync with full_sync false make the
\* same list, fetch, embed and upsert calls in the same order, leave the same
\* index and return the same spaces_synced, documents_indexed and
\* chunks_created; the results differ in sync_type only, "full" against
\* "incremental".
C18_FullSyncSameEffects ==
    op = "sync" =>
        /\ OtherMode.index = index
        /\ OtherMode.calls = calls
        /\ OtherMode.resp.raised = resp.raised
        /\ OtherMode.resp.status = resp.status
        /\ OtherMode.resp.spaces_synced = resp.spaces_synced
        /\ OtherMode.resp.documents_indexed = resp.documents_indexed
        /\ OtherMode.resp.chunks_created = resp.chunks_created
        /\ resp.sync_type = (IF args.full_sync THEN "full" ELSE "incremental")
        /\ OtherMode.resp.sync_type = (IF args.full_sync THEN "incremental" ELSE "full")

\* A full sync that listed, fetched and handed over two collections
C18_Witness ==
    /\ op = "sync"
    /\ args.full_sync
    /\ Len(args.spaces) = 2
    /\ \A k \in 1..2 : args.listing[k] # <<>>
    /\ resp.sync_type = "full"
    /\ Len(calls.log) >= 6

\* C19: a search, ingest or sync step, from any state any sequence of them
\* reaches, issues no delete: every id of the index is still there after the
\* step, and an entry is kept as it was unless an upsert of the step carried
\* its id, in which case the index holds what was upserted last.  Entries of
\* a page that is gone or that now has fewer chunks stay.
C19_CoreNeverDeletes ==
    [][op' \in {"search", "ingest", "sync"} =>
          /\ calls'.deletes = <<>>
          /\ {e.id : e \in index} \subseteq {e.id : e \in index'}
          /\ \A e \in index :
                \/ e \in index'
                \/ \E b \in 1..Len(calls'.upserts) :
                      \E v \in Range(calls'.upserts[b]) : v.id = e.id /\ v \in index']_vars

\* A search fetched page p1, whose text is now one chunk, handed it to the
\* ingest step, and the index still holds p1's second chunk and the entry of
\* another tool
C19_Witness ==
    /\ op = "search"
    /\ \E k \in 1..Len(args.documents) :
          args.documents[k].id = "p1" /\ NumChunks(args.documents[k]) = 1
    /\ Entry("p1", 1, "DOC", <<".">>) \in index
    /\ ForeignEntry \in index
    /\ index = args.index_before

\* C20: a search response with top_k >= 0: the content of at most the first
\* 10 candidates was requested, there are at most top_k results, total_found
\* is their number, and sources is the set of the collection keys of the
\* results.
C20_SearchResponseShape ==
    op = "search" =>
        /\ Len(args.fetched) <= CandidateCap
        /\ \A i \in 1..Len(args.fetched) :
              \E k \in 1..Min({Len(args.results), CandidateCap}) :
                 args.results[k] = args.fetched[i]
        /\ Len(args.documents) = Len(args.fetched)
        /\ Len(resp.results) <= args.top_k
        /\ resp.total_found = Len(resp.results)
        /\ resp.sources = {resp.results[i].space : i \in 1..Len(resp.results)}

\* Twelve candidates, ten fetched, top_k = 2 results from two collections
C20_Witness ==
    /\ op = "search"
    /\ Len(args.results) = CandidateCap + 2
    /\ Len(args.fetched) = CandidateCap
    /\ args.top_k = 2
    /\ resp.total_found = 2
    /\ Cardinality(resp.sources) = 2

\* C23 (as claimed): ingest's return value counts the entries built, not the
\* entries the index accepted: when its one upsert call reports failure (the
\* index unchanged), ingest does not raise and returns the number of entries
\* it built; sync adds that number to chunks_created and the batch size to
\* documents_indexed.
C23_IngestCountsBuiltChunks ==
    /\ (/\ op = "ingest"
        /\ args.embed_fail_at = 0
        /\ args.upstream = "fail"
        /\ TotalChunks(args.documents, 1) > 0) =>
           /\ resp.raised = ""
           /\ resp.ret = TotalChunks(args.documents, 1)
           /\ Len(calls.upserts) = 1
           /\ index = args.index_before
    /\ (/\ op = "sync"
        /\ args.embed_fail_at = 0
        /\ args.upstream = "fail") =>
           LET documents == ListedDocuments(args.spaces, args.listing, args.fetch, 1)
           IN  /\ resp.chunks_created = TotalChunks(documents, 1)
               /\ resp.documents_indexed = Len(documents)
               /\ index = args.index_before

(***************************************************************************)
(* The segmenter on its own: split_text applied to a text.                 *)
(***************************************************************************)
SmallTexts == UNION {[1..n -> Chars] : n \in 0..MaxTextLen}

\* A 1000-character paragraph without a sentence boundary
LongPlain == [i \in 1..1000 |-> "a"]

\* A 1000-character paragraph of ten sentences: nine of 99 characters and one
\* of 100, a space between two sentences
LongSentences ==
    [i \in 1..1000 |-> IF i % 100 = 99 THEN "."
                       ELSE IF i % 100 = 0 /\ i < 1000 THEN " " ELSE "a"]

\* A 1000-character paragraph of ten sentences of dots
LongDots == [i \in 1..1000 |-> IF i % 100 = 0 /\ i < 1000 THEN " " ELSE "."]

LongTexts == {LongPlain, LongSentences, LongDots}

\* What the server leaves alone while the segmenter is examined
SrvIdle ==
    /\ index = {}
    /\ op = "none"
    /\ args = <<>>
    /\ resp = <<>>
    /\ calls = <<>>
    /\ reply = NoReply

InitSeg ==
    /\ seg_pc = "input"
    /\ seg_chunks = <<>>
    /\ \/ /\ seg_text \in SmallTexts
          /\ seg_size \in 0..MaxChunkSize
          /\ seg_overlap \in 0..MaxOverlap
       \/ /\ seg_text \in LongTexts
          /\ seg_size = DefaultChunkSize
          /\ seg_overlap = DefaultChunkOverlap
    /\ SrvIdle
    /\ LstIdle
    /\ NrmIdle

\* chunks = text_processor.split_text(text, chunk_size, chunk_overlap)
Segment ==
    /\ seg_pc = "input"
    /\ seg_chunks' = split_text(seg_text, seg_size, seg_overlap)
    /\ seg_pc' = "done"
    /\ UNCHANGED <<seg_text, seg_size, seg_overlap>>
    /\ UNCHANGED <<srvVars, lstVars, nrmVars>>

NextSeg == Segment

SpecSeg == InitSeg /\ [][NextSeg]_vars

(***************************************************************************)
(* Helpers of the segmenter's properties.                                  *)
(***************************************************************************)
\* The chunk size and the overlap split_text works with
EffSize == IF seg_size = 0 THEN DefaultChunkSize ELSE seg_size
EffOverlap == IF seg_overlap = 0 THEN DefaultChunkOverlap ELSE seg_overlap

StartsWith(s, p) == Len(p) <= Len(s) /\ SubSeq(s, 1, Len(p)) = p

NonWs(s) == SelectSeq(s, LAMBDA c : ~IsWs(c))

\* A chunk without its injected overlap prefix
Body(c) == SubSeq(c.text, c.pre + 1, Len(c.text))

RECURSIVE ConcatBodies(_, _)
ConcatBodies(chunks, k) ==
    IF k > Len(chunks) THEN <<>> ELSE Body(chunks[k]) \o ConcatBodies(chunks, k + 1)

SegDone == seg_pc = "done"

\* C4 (as claimed): every chunk is at most chunkSize long, or is one single
\* sentence longer than chunkSize; chunks opened with an overlap prefix included.
C4_SegmentationBound ==
    SegDone =>
        \A i \in 1..Len(seg_chunks) :
            \/ Len(seg_chunks[i].text) <= EffSize
            \/ Len(_split_by_sentences(seg_chunks[i].text)) = 1

\* C5 (as claimed): with overlap > 0 and more than one chunk, every chunk after
\* the first begins with the last `overlap` characters of the chunk before it
\* (whatever separator follows them).
C5_OverlapEveryPair ==
    (SegDone /\ seg_overlap > 0 /\ Len(seg_chunks) > 1) =>
        \A i \in 1..(Len(seg_chunks) - 1) :
            StartsWith(seg_chunks[i + 1].text, Suffix(seg_chunks[i].text, seg_overlap))

\* C6 (as claimed): a 1000-character single paragraph, chunkSize 512 and overlap
\* 50, gives exactly 2 chunks, the second beginning with the last 50 characters
\* of the first.
C6_ThousandCharExample ==
    (/\ SegDone
     /\ Len(seg_text) = 1000
     /\ Len(_split_by_paragraphs(seg_text)) = 1
     /\ seg_size = 512
     /\ seg_overlap = 50) =>
        /\ Len(seg_chunks) = 2
        /\ StartsWith(seg_chunks[2].text, Suffix(seg_chunks[1].text, 50))

\* C7: the chunks without their injected overlap prefixes, put end to end, hold
\* exactly the non-whitespace content of the input, in input order: no
\* paragraph and no sentence is dropped or repeated.
C7_SegmentationCoverage ==
    SegDone => NonWs(ConcatBodies(seg_chunks, 1)) = NonWs(seg_text)

\* C7's case: several paragraphs, a chunk opened with an overlap prefix, and
\* an over-long paragraph split into sentences
C7_Witness ==
    /\ SegDone
    /\ Len(_split_by_paragraphs(seg_text)) >= 2
    /\ \E i \in 1..Len(seg_chunks) : seg_chunks[i].pre > 0
    /\ \E k \in 1..Len(_split_by_paragraphs(seg_text)) :
          LET p == _split_by_paragraphs(seg_text)[k]
          IN  Len(p) > EffSize /\ Len(_split_by_sentences(p)) >= 2


\* C21 (as claimed): with overlap = 0 no overlap prefix is injected: a chunk
\* opened after a paragraph did not fit is the new paragraph alone.  A
\* prefix is injected only when the caller's overlap is > 0 and a chunk was
\* closed before.
C21_ZeroOverlapNoPrefix ==
    SegDone =>
        \A i \in 1..Len(seg_chunks) :
            seg_chunks[i].pre > 0 => (seg_overlap > 0 /\ i > 1)

(***************************************************************************)
(* The document listing on its own: get_space_pages, one loop iteration    *)
(* per action.  A document of the collection is named by its position.     *)
(***************************************************************************)
\* start += limit, without the advance
NextStartSame(start, limit) == start

\* start += limit
NextStart(start, limit) == start + limit

\* if len(pages) < limit: break
LastPage(pages, limit) == Len(pages) < limit

\* if not pages: break -- with what was gathered thrown away
OnEmptyDiscard(all_pages) == <<>>

\* if not pages: break -- all_pages is returned as it stands
OnEmpty(all_pages) == all_pages

\* The full pages among the responses so far
FullPages(received) ==
    Cardinality({k \in 1..Len(received) : Len(received[k].results) = PageLimit})

InitList ==
    /\ lst_pc = "request"
    /\ lst_start = 0
    /\ lst_all_pages = <<>>
    /\ lst_requests = <<>>
    /\ lst_received = <<>>
    /\ SegIdle
    /\ SrvIdle
    /\ NrmIdle

\* One iteration of while True: the request for (start, limit) either fails
\* (_make_request gives its error object, which has no "page" key) or brings
\* the n documents that follow position start, n <= limit
ListRequest ==
    /\ lst_pc = "request"
    /\ \E outcome \in {"ok", "fail"}, n \in 0..PageLimit :
          /\ outcome = "fail" => n = 0
          /\ n = PageLimit => FullPages(lst_received) < MaxFullPages
          /\ LET pages == [i \in 1..n |-> lst_start + i]
             IN  /\ lst_requests' = Append(lst_requests,
                                           [start |-> lst_start, limit |-> PageLimit])
                 /\ lst_received' = Append(lst_received,
                                           [outcome |-> outcome, results |-> pages])
                 /\ IF pages = <<>>
                    THEN /\ lst_pc' = "done"
                         /\ lst_all_pages' = OnEmpty(lst_all_pages)
                         /\ UNCHANGED lst_start
                    ELSE /\ lst_all_pages' = lst_all_pages \o pages
                         /\ IF LastPage(pages, PageLimit)
                            THEN /\ lst_pc' = "done"
                                 /\ UNCHANGED lst_start
                            ELSE /\ lst_pc' = "request"
                                 /\ lst_start' = NextStart(lst_start, PageLimit)
    /\ UNCHANGED <<segVars, srvVars, nrmVars>>

NextList == ListRequest

\* The loop is sequential code: it keeps running until it breaks
SpecList == InitList /\ [][NextList]_vars /\ WF_vars(NextList)

\* The pages received, one after the other
RECURSIVE Concat(_, _)
Concat(received, k) ==
    IF k > Len(received) THEN <<>>
    ELSE received[k].results \o Concat(received, k + 1)

\* C17: get_space_pages asks for pages of 100 at the offsets 0, 100, 200, ...
\* and stops at the first page with fewer than 100 documents (or none): no
\* request follows a short page and the loop goes on after a full one.  What
\* it holds is the in-order concatenation of the pages received, and with a
\* Document Source that eventually returns a short page it terminates.
C17_ListingPagination ==
    /\ [](/\ \A k \in 1..Len(lst_requests) :
                lst_requests[k] = [start |-> (k - 1) * PageLimit, limit |-> PageLimit]
          /\ \A k \in 1..(Len(lst_received) - 1) :
                Len(lst_received[k].results) = PageLimit
          /\ Len(lst_requests) = Len(lst_received)
          /\ lst_pc = "done" =>
                /\ lst_received # <<>>
                /\ Len(lst_received[Len(lst_received)].results) < PageLimit
          /\ lst_pc = "request" =>
                \A k \in 1..Len(lst_received) : Len(lst_received[k].results) = PageLimit
          /\ lst_all_pages = Concat(lst_received, 1))
    /\ <>(lst_pc = "done")

\* Two full pages and a short one: three requests, 201 documents
C17_Witness ==
    /\ lst_pc = "done"
    /\ Len(lst_requests) = 3
    /\ lst_requests[3].start = 2 * PageLimit
    /\ Len(lst_all_pages) = 2 * PageLimit + 1

\* What get_space_pages returns once the loop is left
Returned == lst_all_pages

\* C24: when a request fails after k >= 1 full pages were received, the loop
\* ends and get_space_pages returns the documents of those k pages, in order,
\* as a plain list; when the first request fails it returns the empty list.
\* In both cases the value is the one a Document Source holding exactly
\* those k pages gives: nothing in it tells the failure from the end of the
\* collection.
C24_PartialListingOnFailure ==
    (/\ lst_pc = "done"
     /\ lst_received[Len(lst_received)].outcome = "fail") =>
        LET k == Len(lst_received) - 1
        IN  /\ \A j \in 1..k : /\ lst_received[j].outcome = "ok"
                               /\ Len(lst_received[j].results) = PageLimit
            /\ Returned = [i \in 1..(k * PageLimit) |-> i]
            /\ Returned = Concat(SubSeq(lst_received, 1, k), 1)
            /\ k = 0 => Returned = <<>>

\* The third request failed after two full pages: 200 documents returned
C24_Witness ==
    /\ lst_pc = "done"
    /\ Len(lst_received) = 3
    /\ lst_received[3].outcome = "fail"
    /\ Len(Returned) = 2 * PageLimit

(***************************************************************************)
(* The normalization on its own: extract_text applied to a page body, and  *)
(* applied again to what it returned.                                      *)
(***************************************************************************)
Nbsp == <<"&", "n", "b", "s", "p", ";">>
Apos == <<"&", "#", "3", "9", ";">>

\* The pieces a page body is put together from: text, whitespace, a blank
\* line, angle brackets, a tag, the two character references and parts of one
NormTokens ==
    {<<"a">>, <<" ">>, <<"\t">>, <<"\n">>, <<"\n", "\n">>, <<"<">>, <<">">>,
     <<"<", "a", ">">>, <<"&">>, Nbsp, Apos, <<"n", "b", "s", "p", ";">>}

RECURSIVE Flatten(_, _)
Flatten(tokens, k) ==
    IF k > Len(tokens) THEN <<>> ELSE tokens[k] \o Flatten(tokens, k + 1)

NormTexts == {Flatten(q, 1) : q \in SeqsUpTo(NormTokens, MaxTokens)}

\* s holds pat at position i
HasAt(s, i, pat) ==
    i + Len(pat) - 1 <= Len(s) /\ SubSeq(s, i, i + Len(pat) - 1) = pat

\* str.replace(pat, rep) from position i on: the leftmost matches, not overlapping
RECURSIVE ReplaceFrom(_, _, _, _)
ReplaceFrom(s, i, pat, rep) ==
    IF i > Len(s) THEN <<>>
    ELSE IF HasAt(s, i, pat) THEN rep \o ReplaceFrom(s, i + Len(pat), pat, rep)
    ELSE <<s[i]>> \o ReplaceFrom(s, i + 1, pat, rep)

Replace(s, pat, rep) == ReplaceFrom(s, 1, pat, rep)

\* Where the match of r"<[^>]+>" that starts at position i ends: at the first
\* ">" after at least one other character; 0 when there is no match at i
TagEnd(s, i) ==
    IF i < Len(s) /\ s[i] = "<" /\ s[i + 1] # ">"
          /\ \E j \in (i + 2)..Len(s) : s[j] = ">"
    THEN Min({j \in (i + 2)..Len(s) : s[j] = ">"})
    ELSE 0

\* re.sub(r"<[^>]+>", "", s) from position i on
RECURSIVE SubTagsFrom(_, _)
SubTagsFrom(s, i) ==
    IF i > Len(s) THEN <<>>
    ELSE IF TagEnd(s, i) > 0 THEN SubTagsFrom(s, TagEnd(s, i) + 1)
    ELSE <<s[i]>> \o SubTagsFrom(s, i + 1)

\* _remove_html_tags.  Lines 35-37 replace a string by itself; line 38 is
\* about the double quote, which no text of the model holds.
_remove_html_tags(html) ==
    Replace(SubTagsFrom(Replace(Replace(html, Nbsp, <<" ">>), Apos, <<"'">>), 1),
            <<"\n", "\n">>, <<"\n">>)

\* re.sub of a run of at least `least` characters of cls by rep, from i on
RECURSIVE SubRuns(_, _, _, _, _)
SubRuns(s, i, cls, least, rep) ==
    IF i > Len(s) THEN <<>>
    ELSE IF s[i] \in cls /\ RunEnd(s, i, cls) - i + 1 >= least
    THEN rep \o SubRuns(s, RunEnd(s, i, cls) + 1, cls, least, rep)
    ELSE <<s[i]>> \o SubRuns(s, i + 1, cls, least, rep)

\* s.split(sep) for a one-character sep, from position i on
RECURSIVE SplitOn(_, _, _)
SplitOn(s, i, sep) ==
    IF \E j \in i..Len(s) : s[j] = sep
    THEN <<SubSeq(s, i, Min({j \in i..Len(s) : s[j] = sep}) - 1)>>
             \o SplitOn(s, Min({j \in i..Len(s) : s[j] = sep}) + 1, sep)
    ELSE <<SubSeq(s, i, Len(s))>>

\* sep.join(lines), from the k-th line on
RECURSIVE Join(_, _, _)
Join(lines, k, sep) ==
    IF k > Len(lines) THEN <<>>
    ELSE IF k = Len(lines) THEN lines[k]
    ELSE lines[k] \o sep \o Join(lines, k + 1, sep)

\* [line.strip() for line in text.split("\n")]
StripLines(lines) == [k \in 1..Len(lines) |-> Strip(lines[k])]

\* [line for line in lines], the blank ones kept
KeepAllLines(lines) == lines

\* [line for line in lines if line]
NonEmptyLines(lines) == SelectSeq(lines, LAMBDA line : line # <<>>)

\* _clean_whitespace
_clean_whitespace(text) ==
    Join(NonEmptyLines(StripLines(SplitOn(
             SubRuns(SubRuns(text, 1, {"\n"}, 3, <<"\n", "\n">>), 1, {" ", "\t"}, 1, <<" ">>),
             1, "\n"))),
         1, <<"\n">>)

\* extract_text, given the body.storage.value of the page ("" when absent)
extract_text(html_content) ==
    IF html_content = <<>> THEN <<>>
    ELSE Strip(_clean_whitespace(_remove_html_tags(html_content)))

InitNorm ==
    /\ nrm_pc = "input"
    /\ nrm_text \in NormTexts
    /\ nrm_once = <<>>
    /\ nrm_twice = <<>>
    /\ SegIdle
    /\ SrvIdle
    /\ LstIdle

\* content = self.text_processor.extract_text(page_content)
Normalize ==
    /\ nrm_pc = "input"
    /\ nrm_once' = extract_text(nrm_text)
    /\ nrm_pc' = "once"
    /\ UNCHANGED <<nrm_text, nrm_twice>>
    /\ UNCHANGED <<segVars, srvVars, lstVars>>

\* extract_text of a page whose body is the text just returned
NormalizeAgain ==
    /\ nrm_pc = "once"
    /\ nrm_twice' = extract_text(nrm_once)
    /\ nrm_pc' = "twice"
    /\ UNCHANGED <<nrm_text, nrm_once>>
    /\ UNCHANGED <<segVars, srvVars, lstVars>>

NextNorm == Normalize \/ NormalizeAgain

SpecNorm == InitNorm /\ [][NextNorm]_vars

\* A text free of markup: no tag and no character reference the
\* normalization would act on
MarkupFree(t) ==
    \A i \in 1..Len(t) : TagEnd(t, i) = 0 /\ ~HasAt(t, i, Nbsp) /\ ~HasAt(t, i, Apos)

\* C22: for a text free of markup, normalizing the normalized text changes
\* nothing; and every normalized text has no run of three or more newlines
\* and neither begins nor ends with a blank line (or any whitespace).
C22_NormalizeIdempotent ==
    /\ nrm_pc \in {"once", "twice"} =>
          /\ \A i \in 1..(Len(nrm_once) - 2) :
                ~(nrm_once[i] = "\n" /\ nrm_once[i + 1] = "\n" /\ nrm_once[i + 2] = "\n")
          /\ nrm_once # <<>> =>
                (~IsWs(nrm_once[1]) /\ ~IsWs(nrm_once[Len(nrm_once)]))
    /\ (nrm_pc = "twice" /\ MarkupFree(nrm_text)) => nrm_twice = nrm_once

\* A markup-free text with blank lines and padding that the first pass
\* changed and the second left alone
C22_Witness ==
    /\ nrm_pc = "twice"
    /\ MarkupFree(nrm_text)
    /\ \E i \in 1..(Len(nrm_text) - 1) : nrm_text[i] = "\n" /\ nrm_text[i + 1] = "\n"
    /\ nrm_once # nrm_text
    /\ Len(nrm_once) >= 3
    /\ nrm_twice = nrm_once
====
